---- MODULE Spec2Model ----
(***************************************************************************)
(* Model of raw_lines.py: the three stream transforms raw_lines (the       *)
(* classifier), library (the entry-point stripper) and count_lines (the    *)
(* counter), and the way the command-line driver chains them.              *)
(*                                                                         *)
(* A line is a sequence of one-character strings, so that strip,           *)
(* startswith, count, "in" and the two regular expressions are computed    *)
(* character by character as Python computes them.  A stream is a sequence *)
(* of lines with a cursor (pos = number of lines pulled so far).           *)
(*                                                                         *)
(* Generators are modelled at the granularity of their pulls: every call   *)
(* of next(f_stream) is the start of one action.  A StopIteration that     *)
(* escapes a generator body is turned into RuntimeError by the interpreter *)
(* (PEP 479, Python >= 3.7): this is the state pc = "error".               *)
(*                                                                         *)
(* Lines are never the empty string: the code reserves '' as the           *)
(* end-of-stream sentinel (iter(callable, '')) and documents its input as  *)
(* "strings ending in '\n'".                                               *)
(***************************************************************************)
EXTENDS Integers, Sequences, FiniteSets, TLC

(* ------------------------------ bounds --------------------------------- *)

\* longest input stream that is enumerated
MaxLen == 4

\* largest number of files given to one run of the driver
MaxFiles == 2

(* --------------------------- program constants ------------------------- *)

APOS == "'"
DQUOTE == "\""

\* the characters of the class ["'] of both regular expressions
QUOTE_CHARS == {APOS, DQUOTE}

\* INDENT = '    '
INDENT == <<" ", " ", " ", " ">>

\* DEFINITION_STATEMENTS = ('class', 'def')
DEFINITION_STATEMENTS == { <<"c", "l", "a", "s", "s">>, <<"d", "e", "f">> }

\* the literal parts of r'if __name__ == ["\']__main__["\']:'
EP_PREFIX == <<"i", "f", " ", "_", "_", "n", "a", "m", "e", "_", "_", " ", "=", "=", " ">>
EP_MAIN == <<"_", "_", "m", "a", "i", "n", "_", "_">>

\* result of a regular expression that does not match
None == <<>>

(* --------------------------- string functions -------------------------- *)

\* the characters str.strip() removes
IsSpace(c) == c \in {" ", "\n", "\t", "\r"}

RECURSIVE lstrip(_)
lstrip(s) ==
    IF s = <<>> THEN s
    ELSE IF IsSpace(Head(s)) THEN lstrip(Tail(s)) ELSE s

RECURSIVE rstrip(_)
rstrip(s) ==
    IF s = <<>> THEN s
    ELSE IF IsSpace(s[Len(s)]) THEN rstrip(SubSeq(s, 1, Len(s) - 1)) ELSE s

\* str.strip()
strip(s) == rstrip(lstrip(s))

\* str.startswith(prefix)
startswith(s, prefix) ==
    /\ Len(s) >= Len(prefix)
    /\ SubSeq(s, 1, Len(prefix)) = prefix

\* str.count(sub): number of non-overlapping occurrences, left to right
RECURSIVE str_count(_, _)
str_count(s, sub) ==
    IF Len(s) < Len(sub) THEN 0
    ELSE IF startswith(s, sub)
         THEN 1 + str_count(SubSeq(s, Len(sub) + 1, Len(s)), sub)
         ELSE str_count(Tail(s), sub)

\* sub in s
contains(s, sub) ==
    \E i \in 1..(Len(s) - Len(sub) + 1) : SubSeq(s, i, i + Len(sub) - 1) = sub

\* variant: the pattern "{3}, which knows one of the two markers only
BLOCK_STRING_DELIMITERS_match_one_marker(s) ==
    IF Len(s) >= 3 /\ \A i \in 1..3 : s[i] = DQUOTE
    THEN SubSeq(s, 1, 3)
    ELSE None

\* BLOCK_STRING_DELIMITERS.match(s): re.compile('["\']{3}') anchored at the
\* start of s; the value is the matched group, or None
BLOCK_STRING_DELIMITERS_match(s) ==
    IF Len(s) >= 3 /\ \A i \in 1..3 : s[i] \in QUOTE_CHARS
    THEN SubSeq(s, 1, 3)
    ELSE None

\* variant: the pattern matched against the stripped line
entry_point_match_stripped(s) ==
    \E q1 \in QUOTE_CHARS, q2 \in QUOTE_CHARS :
        startswith(strip(s), EP_PREFIX \o <<q1>> \o EP_MAIN \o <<q2>> \o <<":">>)

\* variant: the pattern with double quotes only
entry_point_match_double_quotes(s) ==
    startswith(s, EP_PREFIX \o <<DQUOTE>> \o EP_MAIN \o <<DQUOTE>> \o <<":">>)

\* entry_point.match(line): the pattern anchored at the start of the
\* unstripped line; anything may follow the colon
entry_point_match(s) ==
    \E q1 \in QUOTE_CHARS, q2 \in QUOTE_CHARS :
        startswith(s, EP_PREFIX \o <<q1>> \o EP_MAIN \o <<q2>> \o <<":">>)

\* is_definition(line)
is_definition(s) ==
    \E definition \in DEFINITION_STATEMENTS : startswith(strip(s), definition)

\* variant: '#' in stripped_line instead of stripped_line.startswith('#')
blank_or_comment_anywhere(s) ==
    strip(s) = <<>> \/ contains(strip(s), <<"#">>)

\* the test of the first if of raw_lines: blank or comment
blank_or_comment(s) ==
    strip(s) = <<>> \/ startswith(strip(s), <<"#">>)

(* ------------------------------ input lines ---------------------------- *)

NL == <<"\n">>
TQ_APOS == <<APOS, APOS, APOS>>
TQ_DQUOTE == <<DQUOTE, DQUOTE, DQUOTE>>

L_blank == NL
L_comment == INDENT \o <<"#", "c">> \o NL
L_def == <<"d", "e", "f", " ", "f", ":">> \o NL
L_class == <<"c", "l", "a", "s", "s", " ", "A", ":">> \o NL
\* a one-line docstring:  '''d'''
L_doc1 == INDENT \o TQ_APOS \o <<"d">> \o TQ_APOS \o NL
\* a line that opens or closes a docstring:  '''
L_tq == INDENT \o TQ_APOS \o NL
\* the same with the other marker:  """
L_dq == INDENT \o TQ_DQUOTE \o NL
\* the expression statement ''"x" (an empty string glued to "x")
L_mixed == INDENT \o <<APOS, APOS, DQUOTE, "x", DQUOTE>> \o NL
\* a statement with a trailing comment:  x#
L_code == <<"x", "#">> \o NL
\* an indented statement
L_body == INDENT \o <<"y">> \o NL
\* a last line without line terminator
L_last == <<"z">>
\* if __name__ == "__main__":
L_guard == EP_PREFIX \o <<DQUOTE>> \o EP_MAIN \o <<DQUOTE, ":">> \o NL
\* if __name__ == '__main__':
L_guard_apos == EP_PREFIX \o <<APOS>> \o EP_MAIN \o <<APOS, ":">> \o NL
\* the guard inside an indented block
L_guard_indented == INDENT \o L_guard

\* the lines offered to a pipeline, by its first stage
ClassifyLines ==
    {L_blank, L_comment, L_def, L_class, L_doc1, L_tq, L_dq, L_mixed, L_code}
LibraryLines ==
    {L_blank, L_code, L_body, L_guard, L_guard_apos, L_guard_indented}
CountLines == {L_blank, L_comment, L_guard, L_last}
DriverLines == {L_def, L_doc1, L_body, L_guard, L_code}

\* the files offered to a run of the driver over several files
SampleFiles ==
    { <<>>, <<L_code>>, <<L_def>>, <<L_def, L_doc1, L_code>>,
      <<L_code, L_def, L_tq>> }

\* all sequences over S of length at most n
SeqsUpTo(S, n) == UNION { [1..k -> S] : k \in 0..n }

(* ------------------------------ pipelines ------------------------------ *)

\* The driver always applies raw_lines, then library if --library is given,
\* then count_lines if --count is given.  library and count_lines are also
\* applied directly to a stream, as a caller of the module may do.
Pipelines ==
    { <<"raw_lines", "count_lines">>,
      <<"raw_lines", "library", "count_lines">>,
      <<"library", "library">>,
      <<"count_lines">> }

\* the pipelines the driver builds: they start with raw_lines
IsDriverPipeline(pipeline) == Head(pipeline) = "raw_lines"

Lines(pipeline) ==
    IF pipeline = <<"raw_lines", "count_lines">> THEN ClassifyLines
    ELSE IF pipeline = <<"library", "library">> THEN LibraryLines
    ELSE IF pipeline = <<"count_lines">> THEN CountLines
    ELSE DriverLines

(* -------------------------------- state -------------------------------- *)

VARIABLES
    src,                \* the lines of the input source
    stages,             \* the functions the run applies, in order
    stage,              \* index of the function that is running
    f_stream,           \* the lines of the stream the running function reads
    pos,                \* number of lines pulled from f_stream so far
    pc,                 \* position in the running function
    line,               \* local variable line
    next_line,          \* local variable next_line
    quotes,             \* local variable quotes of raw_lines
    indentation_level,  \* local variable indentation_level of library
    out,                \* the lines yielded so far by the running function
    outPos,             \* history: the positions in f_stream of the lines of out
    topPos,             \* history: the positions pulled by the for statement
    total,              \* the value returned by count_lines
    hist,               \* the outputs of the generators that have finished
    in_streams,         \* the input sources the driver has not opened yet
    written             \* the counts the driver has written to out_stream

vars == <<src, stages, stage, f_stream, pos, pc, line, next_line, quotes,
          indentation_level, out, outPos, topPos, total, hist, in_streams,
          written>>

Running(f) == stage \in 1..Len(stages) /\ stages[stage] = f

\* next(f_stream) raises StopIteration
Exhausted == pos = Len(f_stream)

\* the position of the line the for statement pulled last
LastTop == CHOOSE h \in topPos : \A t \in topPos : t <= h

\* the lists of input sources of a run: one source of any content, or,
\* for the driver, several files
Inputs(pipeline) ==
    { <<s>> : s \in SeqsUpTo(Lines(pipeline), MaxLen) }
    \cup (IF IsDriverPipeline(pipeline)
          THEN UNION { [1..k -> SampleFiles] : k \in 2..MaxFiles }
          ELSE {})

Init ==
    /\ stages \in Pipelines
    /\ \E files \in Inputs(stages) :
        /\ src = Head(files)
        /\ in_streams = Tail(files)
    /\ written = <<>>
    /\ stage = 1
    /\ f_stream = src
    /\ pos = 0
    /\ pc = "loop"
    /\ line = None
    /\ next_line = None
    /\ quotes = None
    /\ indentation_level = 0
    /\ out = <<>>
    /\ outPos = <<>>
    /\ topPos = {}
    /\ total = 0
    /\ hist = <<>>

\* variant: yield stripped_line
Yield_stripped(o, l) == Append(o, strip(l))

\* yield l
Yield(o, l) == Append(o, l)

(* ------------------------------ raw_lines ------------------------------ *)

\* for line in iter(lambda: next(f_stream), ''): ... up to the first
\* next(f_stream) or yield of the loop body
raw_lines_next ==
    /\ Running("raw_lines") /\ pc = "loop"
    /\ IF Exhausted
       THEN /\ pc' = "done"
            /\ UNCHANGED <<pos, line, out, outPos, topPos>>
       ELSE /\ pos' = pos + 1
            /\ IF f_stream[pos + 1] = <<>>
               THEN /\ pc' = "done"
                    /\ UNCHANGED <<line, out, outPos, topPos>>
               ELSE /\ line' = f_stream[pos + 1]
                    /\ topPos' = topPos \cup {pos + 1}
                    /\ IF blank_or_comment(line')
                       THEN /\ pc' = "loop"
                            /\ UNCHANGED <<out, outPos>>
                       ELSE IF is_definition(strip(line'))
                       THEN /\ pc' = "lookahead"
                            /\ UNCHANGED <<out, outPos>>
                       ELSE /\ out' = Yield(out, line')
                            /\ outPos' = Append(outPos, pos + 1)
                            /\ pc' = "loop"
    /\ UNCHANGED <<in_streams, written, src, stages, stage, f_stream, next_line, quotes,
                   indentation_level, total, hist>>

\* variant: without the next(f_stream) that precedes the while statement,
\* the while test sees the opening line, which holds the marker, and fails
raw_lines_lookahead_no_first_pull ==
    /\ Running("raw_lines") /\ pc = "lookahead"
    /\ IF Exhausted
       THEN /\ pc' = "error"
            /\ UNCHANGED <<pos, next_line, quotes, out, outPos>>
       ELSE /\ pos' = pos + 1
            /\ next_line' = f_stream[pos + 1]
            /\ LET block_quote == BLOCK_STRING_DELIMITERS_match(strip(next_line'))
               IN  IF block_quote # None
                   THEN /\ quotes' = block_quote
                        /\ out' = Yield(out, line)
                        /\ outPos' = Append(outPos, LastTop)
                        /\ pc' = "loop"
                   ELSE /\ out' = Yield(out, line)
                        /\ outPos' = Append(outPos, LastTop)
                        /\ pc' = "yield_next"
                        /\ UNCHANGED quotes
    /\ UNCHANGED <<in_streams, written, src, stages, stage, f_stream, line, indentation_level,
                   topPos, total, hist>>

\* variant: the lookahead in try/except StopIteration, which yields the
\* header and returns when the header is the last line
raw_lines_lookahead_catch_stop ==
    /\ Running("raw_lines") /\ pc = "lookahead"
    /\ IF Exhausted
       THEN /\ out' = Yield(out, line)
            /\ outPos' = Append(outPos, LastTop)
            /\ pc' = "done"
            /\ UNCHANGED <<pos, next_line, quotes>>
       ELSE /\ pos' = pos + 1
            /\ next_line' = f_stream[pos + 1]
            /\ LET block_quote == BLOCK_STRING_DELIMITERS_match(strip(next_line'))
               IN  IF block_quote # None
                   THEN /\ quotes' = block_quote
                        /\ IF str_count(next_line', block_quote) # 2
                           THEN /\ pc' = "skip"
                                /\ UNCHANGED <<out, outPos>>
                           ELSE /\ out' = Yield(out, line)
                                /\ outPos' = Append(outPos, LastTop)
                                /\ pc' = "loop"
                   ELSE /\ out' = Yield(out, line)
                        /\ outPos' = Append(outPos, LastTop)
                        /\ pc' = "yield_next"
                        /\ UNCHANGED quotes
    /\ UNCHANGED <<in_streams, written, src, stages, stage, f_stream, line, indentation_level,
                   topPos, total, hist>>

\* variant: without the test next_line.count(quotes) != 2, every docstring
\* is skipped as a multi-line docstring
raw_lines_lookahead_always_skip ==
    /\ Running("raw_lines") /\ pc = "lookahead"
    /\ IF Exhausted
       THEN /\ pc' = "error"
            /\ UNCHANGED <<pos, next_line, quotes, out, outPos>>
       ELSE /\ pos' = pos + 1
            /\ next_line' = f_stream[pos + 1]
            /\ LET block_quote == BLOCK_STRING_DELIMITERS_match(strip(next_line'))
               IN  IF block_quote # None
                   THEN /\ quotes' = block_quote
                        /\ pc' = "skip"
                        /\ UNCHANGED <<out, outPos>>
                   ELSE /\ out' = Yield(out, line)
                        /\ outPos' = Append(outPos, LastTop)
                        /\ pc' = "yield_next"
                        /\ UNCHANGED quotes
    /\ UNCHANGED <<in_streams, written, src, stages, stage, f_stream, line, indentation_level,
                   topPos, total, hist>>

\* next_line = next(f_stream) after a definition, the match of
\* BLOCK_STRING_DELIMITERS and the branch taken on it
raw_lines_lookahead ==
    /\ Running("raw_lines") /\ pc = "lookahead"
    /\ IF Exhausted
       THEN /\ pc' = "error"
            /\ UNCHANGED <<pos, next_line, quotes, out, outPos>>
       ELSE /\ pos' = pos + 1
            /\ next_line' = f_stream[pos + 1]
            /\ LET block_quote == BLOCK_STRING_DELIMITERS_match(strip(next_line'))
               IN  IF block_quote # None
                   THEN /\ quotes' = block_quote
                        /\ IF str_count(next_line', block_quote) # 2
                           THEN /\ pc' = "skip"
                                /\ UNCHANGED <<out, outPos>>
                           ELSE /\ out' = Yield(out, line)
                                /\ outPos' = Append(outPos, LastTop)
                                /\ pc' = "loop"
                   ELSE /\ out' = Yield(out, line)
                        /\ outPos' = Append(outPos, LastTop)
                        /\ pc' = "yield_next"
                        /\ UNCHANGED quotes
    /\ UNCHANGED <<in_streams, written, src, stages, stage, f_stream, line, indentation_level,
                   topPos, total, hist>>

\* yield next_line
raw_lines_yield_next ==
    /\ Running("raw_lines") /\ pc = "yield_next"
    /\ out' = Yield(out, next_line)
    /\ outPos' = Append(outPos, pos)
    /\ pc' = "loop"
    /\ UNCHANGED <<in_streams, written, src, stages, stage, f_stream, pos, line, next_line, quotes,
                   indentation_level, topPos, total, hist>>

\* a triple of quote characters somewhere in s: BLOCK_STRING_DELIMITERS.search
has_delimiter(s) ==
    \E i \in 1..Len(s) : BLOCK_STRING_DELIMITERS_match(SubSeq(s, i, Len(s))) # None

\* variant: the skip ends at a line that holds any triple-quote delimiter
raw_lines_skip_any_delimiter ==
    /\ Running("raw_lines") /\ pc = "skip"
    /\ IF Exhausted
       THEN /\ pc' = "error"
            /\ UNCHANGED <<pos, next_line, out, outPos>>
       ELSE /\ pos' = pos + 1
            /\ next_line' = f_stream[pos + 1]
            /\ IF ~ has_delimiter(next_line')
               THEN /\ pc' = "skip"
                    /\ UNCHANGED <<out, outPos>>
               ELSE /\ out' = Yield(out, line)
                    /\ outPos' = Append(outPos, LastTop)
                    /\ pc' = "loop"
    /\ UNCHANGED <<in_streams, written, src, stages, stage, f_stream, line, quotes,
                   indentation_level, topPos, total, hist>>

\* variant: the pulls of the skip in try/except StopIteration with break, so
\* that an unterminated docstring ends the output normally after the header
raw_lines_skip_catch_stop ==
    /\ Running("raw_lines") /\ pc = "skip"
    /\ IF Exhausted
       THEN /\ out' = Yield(out, line)
            /\ outPos' = Append(outPos, LastTop)
            /\ pc' = "loop"
            /\ UNCHANGED <<pos, next_line>>
       ELSE /\ pos' = pos + 1
            /\ next_line' = f_stream[pos + 1]
            /\ IF ~ contains(next_line', quotes)
               THEN /\ pc' = "skip"
                    /\ UNCHANGED <<out, outPos>>
               ELSE /\ out' = Yield(out, line)
                    /\ outPos' = Append(outPos, LastTop)
                    /\ pc' = "loop"
    /\ UNCHANGED <<in_streams, written, src, stages, stage, f_stream, line, quotes,
                   indentation_level, topPos, total, hist>>

\* next_line = next(f_stream) inside a multi-line docstring, followed by the
\* test of the while statement and, when it fails, by yield line
raw_lines_skip ==
    /\ Running("raw_lines") /\ pc = "skip"
    /\ IF Exhausted
       THEN /\ pc' = "error"
            /\ UNCHANGED <<pos, next_line, out, outPos>>
       ELSE /\ pos' = pos + 1
            /\ next_line' = f_stream[pos + 1]
            /\ IF ~ contains(next_line', quotes)
               THEN /\ pc' = "skip"
                    /\ UNCHANGED <<out, outPos>>
               ELSE /\ out' = Yield(out, line)
                    /\ outPos' = Append(outPos, LastTop)
                    /\ pc' = "loop"
    /\ UNCHANGED <<in_streams, written, src, stages, stage, f_stream, line, quotes,
                   indentation_level, topPos, total, hist>>

(* ------------------------------- library ------------------------------- *)

\* INDENT * n
RECURSIVE repeat(_, _)
repeat(s, n) == IF n <= 0 THEN <<>> ELSE s \o repeat(s, n - 1)

\* the test of the while statement of library
in_entry_point_body(l, level) ==
    startswith(l, repeat(INDENT, level)) \/ strip(l) = <<>>

\* for line in iter(lambda: next(f_stream), ''): and the test
\* entry_point.match(line), up to the next next(f_stream) or yield
library_next ==
    /\ Running("library") /\ pc = "loop"
    /\ IF Exhausted
       THEN /\ pc' = "done"
            /\ UNCHANGED <<pos, line, indentation_level, out, outPos, topPos>>
       ELSE /\ pos' = pos + 1
            /\ IF f_stream[pos + 1] = <<>>
               THEN /\ pc' = "done"
                    /\ UNCHANGED <<line, indentation_level, out, outPos, topPos>>
               ELSE /\ line' = f_stream[pos + 1]
                    /\ topPos' = topPos \cup {pos + 1}
                    /\ IF entry_point_match(line')
                       THEN /\ indentation_level' = indentation_level + 1
                            /\ pc' = "body"
                            /\ UNCHANGED <<out, outPos>>
                       ELSE /\ out' = Yield(out, line')
                            /\ outPos' = Append(outPos, pos + 1)
                            /\ pc' = "loop"
                            /\ UNCHANGED indentation_level
    /\ UNCHANGED <<in_streams, written, src, stages, stage, f_stream, next_line, quotes, total, hist>>

\* next_line = next(f_stream) right after the guard, outside any try
library_body ==
    /\ Running("library") /\ pc = "body"
    /\ IF Exhausted
       THEN /\ pc' = "error"
            /\ UNCHANGED <<pos, next_line>>
       ELSE /\ pos' = pos + 1
            /\ next_line' = f_stream[pos + 1]
            /\ pc' = "scan"
    /\ UNCHANGED <<in_streams, written, src, stages, stage, f_stream, line, quotes,
                   indentation_level, out, outPos, topPos, total, hist>>

\* variant: break leaves the function's bookkeeping behind, the decrement
\* is done only when the while test fails
library_scan_break_keeps_level ==
    /\ Running("library") /\ pc = "scan"
    /\ IF in_entry_point_body(next_line, indentation_level)
       THEN IF Exhausted
            THEN /\ pc' = "loop"
                 /\ UNCHANGED <<pos, next_line, indentation_level>>
            ELSE /\ pos' = pos + 1
                 /\ next_line' = f_stream[pos + 1]
                 /\ pc' = "scan"
                 /\ UNCHANGED indentation_level
       ELSE /\ indentation_level' = indentation_level - 1
            /\ pc' = "loop"
            /\ UNCHANGED <<pos, next_line>>
    /\ UNCHANGED <<in_streams, written, src, stages, stage, f_stream, line, quotes, out, outPos,
                   topPos, total, hist>>

\* one test of the while statement: either the try block that pulls the
\* next line (break on StopIteration), or the exit of the loop; both exits
\* go through indentation_level -= 1 and leave next_line behind
library_scan ==
    /\ Running("library") /\ pc = "scan"
    /\ IF in_entry_point_body(next_line, indentation_level)
       THEN IF Exhausted
            THEN /\ indentation_level' = indentation_level - 1
                 /\ pc' = "loop"
                 /\ UNCHANGED <<pos, next_line>>
            ELSE /\ pos' = pos + 1
                 /\ next_line' = f_stream[pos + 1]
                 /\ pc' = "scan"
                 /\ UNCHANGED indentation_level
       ELSE /\ indentation_level' = indentation_level - 1
            /\ pc' = "loop"
            /\ UNCHANGED <<pos, next_line>>
    /\ UNCHANGED <<in_streams, written, src, stages, stage, f_stream, line, quotes, out, outPos,
                   topPos, total, hist>>

(* ----------------------------- count_lines ----------------------------- *)

\* variant: sum(1 for l in f_stream if l.strip())
count_lines_next_non_blank ==
    /\ Running("count_lines") /\ pc = "loop"
    /\ IF Exhausted
       THEN /\ pc' = "done"
            /\ UNCHANGED <<pos, total>>
       ELSE /\ pos' = pos + 1
            /\ total' = IF strip(f_stream[pos + 1]) = <<>> THEN total ELSE total + 1
            /\ pc' = "loop"
    /\ UNCHANGED <<in_streams, written, src, stages, stage, f_stream, line, next_line, quotes,
                   indentation_level, out, outPos, topPos, hist>>

\* sum(1 for _ in f_stream): one element of the generator expression
count_lines_next ==
    /\ Running("count_lines") /\ pc = "loop"
    /\ IF Exhausted
       THEN /\ pc' = "done"
            /\ UNCHANGED <<pos, total>>
       ELSE /\ pos' = pos + 1
            /\ total' = total + 1
            /\ pc' = "loop"
    /\ UNCHANGED <<in_streams, written, src, stages, stage, f_stream, line, next_line, quotes,
                   indentation_level, out, outPos, topPos, hist>>

(* ------------------------------ the driver ----------------------------- *)

\* lines = raw_lines(in_stream); lines = library(lines); count_lines(lines):
\* the output of a finished generator is the stream of the next function.
\* The generators are lazy in the code; they are run one after the other
\* here, which delivers the same lines to every function because each
\* function is deterministic and is the only reader of its stream.
next_stage ==
    /\ pc = "done"
    /\ hist' = IF stages[stage] = "count_lines" THEN hist ELSE Append(hist, out)
    /\ IF stage < Len(stages)
       THEN /\ stage' = stage + 1
            /\ f_stream' = out
            /\ pos' = 0
            /\ pc' = "loop"
            /\ line' = None
            /\ next_line' = None
            /\ quotes' = None
            /\ indentation_level' = 0
            /\ out' = <<>>
            /\ outPos' = <<>>
            /\ topPos' = {}
       ELSE /\ pc' = "exit"
            /\ UNCHANGED <<stage, f_stream, pos, line, next_line, quotes,
                           indentation_level, out, outPos, topPos>>
    /\ written' = IF IsDriverPipeline(stages) /\ stages[stage] = "count_lines"
                  THEN Append(written, total)
                  ELSE written
    /\ UNCHANGED <<src, stages, total, in_streams>>

\* for file, in_stream in in_streams: the next iteration, on the next file,
\* with the same options
next_source ==
    /\ pc = "exit"
    /\ in_streams # <<>>
    /\ src' = Head(in_streams)
    /\ in_streams' = Tail(in_streams)
    /\ stage' = 1
    /\ f_stream' = Head(in_streams)
    /\ pos' = 0
    /\ pc' = "loop"
    /\ line' = None
    /\ next_line' = None
    /\ quotes' = None
    /\ indentation_level' = 0
    /\ out' = <<>>
    /\ outPos' = <<>>
    /\ topPos' = {}
    /\ total' = 0
    /\ hist' = <<>>
    /\ UNCHANGED <<stages, written>>

\* The RuntimeError of a generator is caught nowhere: it leaves the for
\* statement over in_streams and the with statement, and ends the process
\* (or, for a direct call, reaches the caller).
uncaught ==
    /\ pc = "error"
    /\ pc' = "crashed"
    /\ UNCHANGED <<src, stages, stage, f_stream, pos, line, next_line, quotes,
                   indentation_level, out, outPos, topPos, total, hist,
                   in_streams, written>>

Next ==
    \/ raw_lines_next
    \/ raw_lines_lookahead
    \/ raw_lines_yield_next
    \/ raw_lines_skip
    \/ library_next
    \/ library_body
    \/ library_scan
    \/ count_lines_next
    \/ next_stage
    \/ next_source
    \/ uncaught

Spec == Init /\ [][Next]_vars

(* ------------------------------ type check ----------------------------- *)

TypeOK ==
    /\ stages \in Pipelines
    /\ stage \in 1..Len(stages)
    /\ pos \in 0..Len(f_stream)
    /\ pc \in {"loop", "lookahead", "yield_next", "skip", "body", "scan",
               "done", "error", "crashed", "exit"}
    /\ Len(out) = Len(outPos)
    /\ total \in 0..MaxLen + 1
    /\ Len(in_streams) < MaxFiles
    /\ Len(written) <= MaxFiles

(* -------------------- vocabulary of the properties --------------------- *)

Range(s) == { s[i] : i \in 1..Len(s) }

\* a is b with some elements left out
RECURSIVE IsSubseq(_, _)
IsSubseq(a, b) ==
    IF a = <<>> THEN TRUE
    ELSE IF b = <<>> THEN FALSE
    ELSE IF Head(a) = Head(b) THEN IsSubseq(Tail(a), Tail(b))
    ELSE IsSubseq(a, Tail(b))

\* the two triple-quote markers
Markers == {TQ_APOS, TQ_DQUOTE}

TrimmedEmpty(l) == strip(l) = <<>>
TrimmedStartsWith(l, p) == startswith(strip(l), p)
IsComment(l) == TrimmedStartsWith(l, <<"#">>)
IsHeader(l) ==
    \/ TrimmedStartsWith(l, <<"c", "l", "a", "s", "s">>)
    \/ TrimmedStartsWith(l, <<"d", "e", "f">>)
StartsWithMarker(l) == \E m \in Markers : TrimmedStartsWith(l, m)

\* an entry-point guard that starts in column 0
GuardAtColumn0(l) ==
    \E q1 \in {APOS, DQUOTE}, q2 \in {APOS, DQUOTE} :
        startswith(l, EP_PREFIX \o <<q1>> \o EP_MAIN \o <<q2, ":">>)

\* a line the body scan of library discards
BodyLine(l) == startswith(l, INDENT) \/ TrimmedEmpty(l)

NoLeadingIndent(l) == l # <<>> /\ ~ IsSpace(l[1])

\* the line at position p was yielded, unchanged
Emitted(p) == \E k \in 1..Len(outPos) : outPos[k] = p /\ out[k] = f_stream[p]

(* --------------------------------- C1 ---------------------------------- *)

\* C1: library, on a guard line, then M >= 0 lines that start with INDENT or
\* are blank, then an unindented non-blank line L, then further lines,
\* yields exactly L and the lines after it.  (Stated for streams whose only
\* guard is the first line, so that nothing after L is a guard itself.)
C1_BodyEndLineKept ==
    (Running("library") /\ pc = "done") =>
        \A M \in 0..Len(f_stream) :
            ( /\ M + 2 <= Len(f_stream)
              /\ GuardAtColumn0(f_stream[1])
              /\ \A j \in 2..(M + 1) : BodyLine(f_stream[j])
              /\ NoLeadingIndent(f_stream[M + 2])
              /\ \A j \in (M + 2)..Len(f_stream) : ~ GuardAtColumn0(f_stream[j]) )
            => out = SubSeq(f_stream, M + 2, Len(f_stream))

(* --------------------------------- C2 ---------------------------------- *)

\* C2: when raw_lines ends normally, its output holds no line whose trimmed
\* text is empty or begins with '#', and is a subsequence of the input.
C2_NoBlankOrCommentEmitted ==
    (Running("raw_lines") /\ pc = "done") =>
        /\ \A k \in 1..Len(out) : ~ TrimmedEmpty(out[k]) /\ ~ IsComment(out[k])
        /\ IsSubseq(out, f_stream)

(* --------------------------------- C3 ---------------------------------- *)

\* a one-line docstring: starts with a marker that occurs exactly twice
SelfClosed(l) ==
    \E m \in Markers : TrimmedStartsWith(l, m) /\ str_count(l, m) = 2

C3_Case(h) ==
    /\ Running("raw_lines")
    /\ h \in topPos
    /\ IsHeader(f_stream[h])
    /\ h + 1 <= pos
    /\ SelfClosed(f_stream[h + 1])

\* C3: once raw_lines has pulled the one-line docstring that follows a
\* header pulled by the for statement, the header is in the output, the
\* docstring line is not, and the lookahead has consumed that one line only:
\* the line after the docstring is pulled by the for statement.
C3_OneLineDocstringAbsorbed ==
    \A h \in 1..Len(f_stream) :
        C3_Case(h) =>
            /\ Emitted(h)
            /\ h + 1 \notin Range(outPos)
            /\ h + 1 \notin topPos
            /\ pos = h + 1 => pc \in {"loop", "done"}
            /\ pos >= h + 2 => h + 2 \in topPos

C3_Witness ==
    \E h \in 1..Len(f_stream) : C3_Case(h) /\ pos >= h + 2

(* --------------------------------- C4 ---------------------------------- *)

C4_Case(h, N) ==
    /\ Running("raw_lines")
    /\ h \in topPos
    /\ IsHeader(f_stream[h])
    /\ h + N + 2 <= pos
    /\ \E m \in Markers :
        /\ TrimmedStartsWith(f_stream[h + 1], m)
        /\ str_count(f_stream[h + 1], m) = 1
        /\ \A j \in (h + 2)..(h + N + 1) : ~ contains(f_stream[j], m)
        /\ contains(f_stream[h + N + 2], m)

C4_WitnessNoInterior ==
    \E h \in 1..Len(f_stream) : C4_Case(h, 0) /\ pos >= h + 3

(* --------------------------------- C5 ---------------------------------- *)

\* raw_lines has dealt with the header at h and its successor
C5_Settled(h) ==
    \/ pos >= h + 2
    \/ pos = h + 1 /\ pc \in {"loop", "done"}

\* C5: when the successor of a header pulled by the for statement does not
\* start with a triple-quote marker, raw_lines yields the header and then
\* the successor, unchanged, and the for statement pulls the line after the
\* successor.
C5_HeaderThenSuccessor ==
    \A h \in 1..Len(f_stream) :
        ( /\ Running("raw_lines")
          /\ h \in topPos
          /\ IsHeader(f_stream[h])
          /\ h + 1 <= Len(f_stream)
          /\ ~ StartsWithMarker(f_stream[h + 1])
          /\ C5_Settled(h) )
        => /\ \E k \in 1..(Len(out) - 1) :
                /\ outPos[k] = h /\ out[k] = f_stream[h]
                /\ outPos[k + 1] = h + 1 /\ out[k + 1] = f_stream[h + 1]
           /\ pos >= h + 2 => h + 2 \in topPos

(* --------------------------------- C6 ---------------------------------- *)

\* no blank line, no comment, no class or def
Plain(s) ==
    \A i \in 1..Len(s) :
        ~ TrimmedEmpty(s[i]) /\ ~ IsComment(s[i]) /\ ~ IsHeader(s[i])

\* C6: on a stream without blank lines, comments and class/def lines,
\* raw_lines never fails and never looks ahead, what it has yielded is
\* always exactly what it has pulled, and when it ends its output is the
\* input.
C6_IdentityOnPlainLines ==
    (Running("raw_lines") /\ Plain(f_stream)) =>
        /\ pc \in {"loop", "done"}
        /\ out = SubSeq(f_stream, 1, pos)
        /\ pc = "done" => out = f_stream

C6_Witness ==
    /\ Running("raw_lines") /\ pc = "done"
    /\ Plain(f_stream) /\ Len(f_stream) >= 3
    /\ \E i \in 1..Len(f_stream) : StartsWithMarker(f_stream[i])
    /\ \E i \in 1..Len(f_stream) : contains(f_stream[i], <<"#">>)

(* --------------------------------- C7 ---------------------------------- *)

\* C7: in every state of raw_lines the lines yielded so far are a
\* subsequence of the lines pulled so far (unmodified, at most once each,
\* in input order).
C7_OutputIsSubsequence ==
    Running("raw_lines") => IsSubseq(out, SubSeq(f_stream, 1, pos))

C7_Witness ==
    /\ Running("raw_lines")
    /\ Len(out) >= 2
    /\ Len(out) < pos
    /\ \E k \in 1..Len(out) : IsHeader(out[k])

(* --------------------------------- C8 ---------------------------------- *)

\* C8: when library ends, its output holds no guard line that starts in
\* column 0 and no indented line of the body of such a guard, whichever
\* guard of the stream it is.
C8_EveryGuardRemoved ==
    (Running("library") /\ pc = "done") =>
        \A i \in 1..Len(f_stream) :
            GuardAtColumn0(f_stream[i]) =>
                /\ i \notin Range(outPos)
                /\ \A j \in (i + 1)..Len(f_stream) :
                    ( /\ \A m \in (i + 1)..j : BodyLine(f_stream[m])
                      /\ startswith(f_stream[j], INDENT) )
                    => j \notin Range(outPos)

(* --------------------------------- C9 ---------------------------------- *)

NoGuard(s) == \A i \in 1..Len(s) : ~ GuardAtColumn0(s[i])

\* C9: on a stream without guard line, library yields every line it pulls,
\* unchanged and in order, and never fails, so its output is its input; a
\* second application of library to that output yields the same lines.
C9_NoGuardNoChange ==
    /\ (Running("library") /\ NoGuard(f_stream)) =>
        /\ pc \in {"loop", "done", "exit"}
        /\ out = SubSeq(f_stream, 1, pos)
        /\ pc = "done" => out = f_stream
    /\ (stages = <<"library", "library">> /\ NoGuard(src) /\ pc = "exit") =>
        hist = <<src, src>>

C9_Witness ==
    /\ stages = <<"library", "library">> /\ pc = "exit"
    /\ NoGuard(src) /\ Len(src) >= 3
    /\ \E i \in 1..Len(src) : TrimmedEmpty(src[i])
    /\ \E i \in 1..Len(src) : startswith(src[i], INDENT)

(* --------------------------------- C10 --------------------------------- *)

\* C10: count_lines counts every line it pulls, whatever the line is, and
\* returns the length of its stream after pulling all of it.
C10_CountIsLength ==
    Running("count_lines") =>
        /\ total = pos
        /\ pc \in {"done", "exit"} => (pos = Len(f_stream) /\ total = Len(f_stream))

C10_Witness ==
    /\ stages = <<"count_lines">> /\ pc = "done"
    /\ total >= 3
    /\ \E i \in 1..Len(f_stream) : TrimmedEmpty(f_stream[i])
    /\ \E i \in 1..Len(f_stream) : IsComment(f_stream[i])
    /\ \E i \in 1..Len(f_stream) : GuardAtColumn0(f_stream[i])

(* --------------------------------- C11 --------------------------------- *)

\* the for statement of raw_lines has pulled a header that is the last line
C11_Case ==
    /\ Running("raw_lines")
    /\ f_stream # <<>>
    /\ Len(f_stream) \in topPos
    /\ IsHeader(f_stream[Len(f_stream)])

\* C11: when a header pulled by the for statement is the last line of the
\* stream, raw_lines does not end normally: it is about to look ahead or has
\* failed with the exhaustion error; the header is not in the output, and
\* every line the for statement pulled before it that is neither blank nor
\* a comment is already in the output.
C11_HeaderLastIsError ==
    C11_Case =>
        /\ pc \in {"lookahead", "error", "crashed"}
        /\ Len(f_stream) \notin Range(outPos)
        /\ \A p \in topPos \ {Len(f_stream)} :
            (~ TrimmedEmpty(f_stream[p]) /\ ~ IsComment(f_stream[p])) => Emitted(p)

C11_Witness ==
    C11_Case /\ pc = "error" /\ Len(out) >= 2

(* --------------------------------- C12 --------------------------------- *)

\* a header pulled by the for statement at h, followed by a line that opens
\* a multi-line docstring with marker m, which no later line contains
C12_Case(h) ==
    /\ Running("raw_lines")
    /\ h \in topPos
    /\ IsHeader(f_stream[h])
    /\ h + 1 <= pos
    /\ \E m \in Markers :
        /\ TrimmedStartsWith(f_stream[h + 1], m)
        /\ str_count(f_stream[h + 1], m) # 2
        /\ \A j \in (h + 2)..Len(f_stream) : ~ contains(f_stream[j], m)

\* C12: after the opening line of a docstring that is never closed,
\* raw_lines only discards lines until it fails with the exhaustion error,
\* which happens when the whole stream is consumed; neither the header nor
\* any later line is in the output.
C12_UnclosedDocstringIsError ==
    \A h \in 1..Len(f_stream) :
        C12_Case(h) =>
            /\ pc \in {"skip", "error", "crashed"}
            /\ pc # "skip" => pos = Len(f_stream)
            /\ Range(outPos) \cap (h..Len(f_stream)) = {}

C12_Witness ==
    \E h \in 1..Len(f_stream) :
        C12_Case(h) /\ pc = "error" /\ Len(f_stream) >= h + 2 /\ out # <<>>

(* --------------------------------- C13 --------------------------------- *)

\* s is a header, a docstring of k - 1 lines (one-line, or opened and closed
\* with the same marker), and one statement
C13_HeaderDocStatement(s, k) ==
    /\ Len(s) = k + 1
    /\ k >= 2
    /\ IsHeader(s[1])
    /\ \/ k = 2 /\ SelfClosed(s[2])
       \/ /\ k >= 3
          /\ \E m \in Markers :
              /\ TrimmedStartsWith(s[2], m)
              /\ str_count(s[2], m) = 1
              /\ \A j \in 3..(k - 1) : ~ contains(s[j], m)
              /\ contains(s[k], m)
    /\ ~ TrimmedEmpty(s[k + 1]) /\ ~ IsComment(s[k + 1]) /\ ~ IsHeader(s[k + 1])

C13_Case == \E k \in 2..Len(src) : C13_HeaderDocStatement(src, k)

\* C13: on header + docstring + one statement, raw_lines does not fail, the
\* for statement pulls the statement, the output of raw_lines is the header
\* and the statement, and count_lines of that output returns 2.
C13_StatementAfterDocstringKept ==
    (stages = <<"raw_lines", "count_lines">> /\ C13_Case) =>
        /\ pc \notin {"error", "crashed"}
        /\ (stage = 1 /\ pos = Len(src)) => Len(src) \in topPos
        /\ (stage = 1 /\ pc = "done") => out = <<src[1], src[Len(src)]>>
        /\ pc = "exit" => (hist = << <<src[1], src[Len(src)]>> >> /\ total = 2)

C13_Witness ==
    /\ stages = <<"raw_lines", "count_lines">> /\ pc = "exit"
    /\ C13_HeaderDocStatement(src, 2)

C13_WitnessMultiLine ==
    /\ stages = <<"raw_lines", "count_lines">> /\ pc = "exit"
    /\ C13_HeaderDocStatement(src, 3)

(* --------------------------------- C14 --------------------------------- *)

\* C14: when raw_lines ends, for a header pulled by the for statement that is
\* followed by a second header and then by a one-line docstring, both
\* headers are in the output and the docstring line is not.
C14_DocstringOfSecondHeaderAbsorbed ==
    (Running("raw_lines") /\ pc = "done") =>
        \A h \in 1..Len(f_stream) :
            ( /\ h \in topPos
              /\ h + 2 <= Len(f_stream)
              /\ IsHeader(f_stream[h])
              /\ IsHeader(f_stream[h + 1])
              /\ SelfClosed(f_stream[h + 2]) )
            => /\ Emitted(h)
               /\ Emitted(h + 1)
               /\ h + 2 \notin Range(outPos)

(* --------------------------------- C15 --------------------------------- *)

\* the trimmed text of l is a guard
GuardTrimmed(l) ==
    \E q1 \in {APOS, DQUOTE}, q2 \in {APOS, DQUOTE} :
        TrimmedStartsWith(l, EP_PREFIX \o <<q1>> \o EP_MAIN \o <<q2, ":">>)

\* C15 as stated: a line pulled by the for statement of library whose
\* trimmed text is a guard is not in the output.
C15_TrimmedGuardRemoved ==
    Running("library") =>
        \A p \in topPos : GuardTrimmed(f_stream[p]) => p \notin Range(outPos)

\* C15 amended: library recognizes a guard by the untrimmed line: a line
\* pulled by the for statement is left out of the output when the guard
\* pattern, with either quote character on either side of __main__, matches
\* at its first character, and is in the output, unchanged, otherwise; so a
\* guard line that has leading whitespace is emitted.
C15_GuardAtColumn0Only ==
    Running("library") =>
        \A p \in topPos :
            /\ GuardAtColumn0(f_stream[p]) => p \notin Range(outPos)
            /\ ~ GuardAtColumn0(f_stream[p]) => Emitted(p)

C15_Witness ==
    /\ Running("library")
    /\ \E p \in topPos : GuardTrimmed(f_stream[p]) /\ Emitted(p)
    /\ \E p \in topPos : startswith(f_stream[p], EP_PREFIX \o <<APOS>>)
    /\ \E p \in topPos : startswith(f_stream[p], EP_PREFIX \o <<DQUOTE>>)

(* --------------------------------- C16 --------------------------------- *)

\* C16: when every line after a guard pulled by the for statement of library
\* is a body line (also when there is no line after the guard), library
\* does not fail: it ends its output normally.
C16_ExhaustionInBodyIsNormalEnd ==
    \A p \in 1..Len(f_stream) :
        ( /\ Running("library")
          /\ p \in topPos
          /\ GuardAtColumn0(f_stream[p])
          /\ \A j \in (p + 1)..Len(f_stream) : BodyLine(f_stream[j]) )
        => pc \notin {"error", "crashed"}

(* --------------------------------- C17 --------------------------------- *)

\* the trimmed text of l starts with three quote characters that are not
\* three times the same character
StartsWithMixedQuotes(l) ==
    /\ Len(strip(l)) >= 3
    /\ \A i \in 1..3 : strip(l)[i] \in {APOS, DQUOTE}
    /\ ~ StartsWithMarker(l)

\* C17: a successor of a header that starts with three quote characters of
\* mixed kind is no docstring: once raw_lines has dealt with it, the header
\* and the successor are in the output.
C17_MixedQuotesAreOrdinary ==
    \A h \in 1..Len(f_stream) :
        ( /\ Running("raw_lines")
          /\ h \in topPos
          /\ IsHeader(f_stream[h])
          /\ h + 1 <= Len(f_stream)
          /\ StartsWithMixedQuotes(f_stream[h + 1])
          /\ \/ pos >= h + 2
             \/ pos = h + 1 /\ pc \in {"loop", "done", "error", "crashed"} )
        => Emitted(h) /\ Emitted(h + 1)

(* --------------------------------- C18 --------------------------------- *)

\* a header pulled by the for statement at h, the opening line of a
\* multi-line docstring with marker m, and the first later line c that
\* contains m
C18_Case(h, c, m) ==
    /\ Running("raw_lines")
    /\ h \in topPos
    /\ IsHeader(f_stream[h])
    /\ h + 1 <= pos
    /\ m \in Markers
    /\ TrimmedStartsWith(f_stream[h + 1], m)
    /\ str_count(f_stream[h + 1], m) # 2
    /\ c \in (h + 2)..Len(f_stream)
    /\ contains(f_stream[c], m)
    /\ \A j \in (h + 2)..(c - 1) : ~ contains(f_stream[j], m)

\* C18: the skip of a multi-line docstring goes on up to the first line
\* after the opening line that contains the opening marker, and ends there:
\* before that line is pulled raw_lines is skipping and has not yielded the
\* header; once it is pulled the header is yielded, no line from the opening
\* line to that line is in the output (lines that hold the other marker
\* included), and the next line is pulled by the for statement.
C18_SkipEndsAtSameMarker ==
    \A h \in 1..Len(f_stream) : \A c \in 1..Len(f_stream) : \A m \in Markers :
        C18_Case(h, c, m) =>
            /\ pos < c => (pc = "skip" /\ h \notin Range(outPos))
            /\ pos >= c => Emitted(h)
            /\ Range(outPos) \cap ((h + 1)..c) = {}
            /\ pos = c => pc \in {"loop", "done"}
            /\ pos >= c + 1 => c + 1 \in topPos

\* a skip that went over a line with the other marker and ended later
C18_Witness ==
    \E h \in 1..Len(f_stream) : \E c \in 1..Len(f_stream) : \E m \in Markers :
        /\ C18_Case(h, c, m)
        /\ pos >= c
        /\ \E j \in (h + 2)..(c - 1) : \E o \in Markers \ {m} : contains(f_stream[j], o)

(* --------------------------------- C19 --------------------------------- *)

\* C19: a premature-exhaustion error in one input source aborts that source
\* only: the process does not end on it while sources are left to process.
C19_LaterSourcesProcessed ==
    pc = "crashed" => in_streams = <<>>

(* --------------------------------- C20 --------------------------------- *)

\* C20: indentation_level of library is 0 or 1 in every state; it is 0
\* whenever library is at its for statement or has ended normally, and
\* every step that yields a line starts and ends with level 0.
C20_IndentationLevel ==
    /\ [](indentation_level \in {0, 1})
    /\ []((Running("library") /\ pc \in {"loop", "done"}) => indentation_level = 0)
    /\ [][(Running("library") /\ Len(out') > Len(out))
            => (indentation_level = 0 /\ indentation_level' = 0)]_vars

\* library has ended normally after a guard whose body held another guard
C20_Witness ==
    /\ Running("library") /\ pc = "done"
    /\ out # <<>>
    /\ \E p \in topPos :
        /\ GuardAtColumn0(f_stream[p])
        /\ p + 1 <= Len(f_stream)
        /\ GuardTrimmed(f_stream[p + 1])
        /\ BodyLine(f_stream[p + 1])

====
